---- MODULE Spec2Model ----
(***************************************************************************)
(* A model of llm-over-dns: the response chunker (src/src/chunker.rs), the *)
(* model-fallback query engine (src/src/llm_client.rs), the prompt         *)
(* extractor (src/src/dns_handler.rs) and the UDP listener with its        *)
(* per-datagram tasks (src/src/server.rs).                                 *)
(*                                                                         *)
(* Text is a sequence of bytes (integers 0..255) holding valid UTF-8.      *)
(***************************************************************************)
EXTENDS Integers, Sequences, FiniteSets, TLC

VARIABLES
    \* ---- Chunker::chunk_text, one invocation ----
    text,             \* the argument of chunk_text
    max_chunk_size,   \* Chunker.max_chunk_size
    max_total_size,   \* Chunker.max_total_size
    text_to_chunk,    \* local of chunk_text (line 63)
    remaining,        \* local of chunk_text (line 77)
    chunks,           \* local of chunk_text (line 76); the value returned
    cpc,              \* position in chunk_text: "idle", "start", "loop", "done"
    \* ---- LlmClient ----
    client,           \* one call of LlmClient::new: its arguments, whether
                      \* the HTTP client can be built, and the value returned
    models,           \* LlmClient.models, the ordered fallback list
    prompt,           \* the argument of one invocation of LlmClient::query
    query,            \* that invocation: position, loop index, last_error,
                      \* the attempts made so far and the value returned
    \* ---- Server ----
    listener,         \* position of Server::start: "init", "serving",
                      \* "sleeping", "stopped", "failed"
    shutdown_rx,      \* the receiver start() subscribes to shutdown_tx
    buffer,           \* the receive buffer of start(), shared by all datagrams
    received,         \* history: the datagrams that parsed, in arrival order,
                      \* each with the address it came from
    tasks,            \* the tasks spawned so far, in spawn order
    shutdown_result,  \* what the latest call of Server::shutdown returned
    main_pc,          \* position of main (main.rs): "none" when the Server
                      \* is driven through its API, else "select",
                      \* "returning", "exited"
    \* ---- DnsHandler::parse_subdomain, one invocation ----
    domain,           \* the argument of parse_subdomain
    parsed            \* the value returned, once it has returned

chunkVars == <<text, max_chunk_size, max_total_size, text_to_chunk, remaining, chunks, cpc>>

queryVars == <<client, prompt, query>>

serverVars == <<listener, shutdown_rx, shutdown_result, buffer, received, tasks, main_pc>>

dnsVars == <<domain, parsed>>

vars == <<chunkVars, models, queryVars, serverVars, dnsVars>>

----------------------------------------------------------------------------
(* Bounds of the model *)

\* texts of the chunker have at most this many characters
MaxChars == 3
\* max_chunk_size ranges over 0..MaxChunkBytes (with_sizes takes any usize)
MaxChunkBytes == 5
\* max_total_size ranges over 0..MaxTotalBytes
MaxTotalBytes == 8

\* The characters texts are made of, as UTF-8 byte sequences:
\* "a" (1 byte), "e-acute" (2 bytes), a hiragana (3 bytes), an emoji (4 bytes).
Utf8Chars == { <<97>>, <<195, 169>>, <<227, 129, 147>>, <<240, 159, 142, 137>> }

\* a cutting loop that makes no progress pushes chunks for ever; the model
\* stops it after more chunks than any text of the model has bytes
LoopCap == 4 * MaxChars + 1

\* a model list has at most this many models
MaxModels == 3
\* a parsed 200 body has at most this many choices
MaxChoices == 2

ModelNames == {"m1", "m2"}

ModelLists == UNION { [1..n -> ModelNames] : n \in 1..MaxModels }

\* the credentials LlmClient::new is called with: empty, or a key
ApiKeys == { <<>>, <<"k">> }

\* the model lists LlmClient::new is called with
ModelListArgs == { <<>> } \cup ModelLists

\* prompts: sequences of characters
Prompts == { <<>>, <<"h">>, <<"h", "i">> }

\* answer texts of the completion endpoint (UTF-8 bytes)
Contents == { <<>>, <<97>> }

\* the listener receives at most this many datagrams that parse
MaxDatagrams == 2
\* a message has at most this many questions
MaxQuestions == 2

\* the texts parse_subdomain is called on have at most this many characters
MaxNameLen == 4
\* and are made of these: a blank, the separator, a letter
NameChars == {" ", ".", "h"}

\* message identifiers and client addresses
Ids == {1, 2}
Addrs == {"c1", "c2"}

\* the names asked for, as Name::to_utf8 renders them: the root, and "hi."
QueryNames == { <<".">>, <<"h", "i", ".">> }

\* an answer text one byte longer than half of the total size of the default
\* chunker: nine chunks, the last one of 49 bytes
LongContent == [i \in 1..2049 |-> IF i <= 2048 THEN 97 ELSE 98]

\* the model list of the server's engine
ServerModels == <<"m1", "m2">>

\* what the completion endpoint answers to a task of the server
TaskHttpResponses ==
    { [kind |-> "transport_error", status |-> 0,
       body |-> [parsable |-> FALSE, choices |-> <<>>]],
      [kind |-> "http", status |-> 429,
       body |-> [parsable |-> FALSE, choices |-> <<>>]] }
    \cup { [kind |-> "http", status |-> 200,
            body |-> [parsable |-> TRUE, choices |-> <<c>>]] :
                c \in Contents \cup {LongContent} }

DnsIdle ==
    /\ domain = <<>>
    /\ parsed = [some |-> FALSE]

ServerIdle ==
    /\ listener = "idle"
    /\ shutdown_rx = [subscribed |-> FALSE, pending |-> FALSE]
    /\ shutdown_result = [some |-> FALSE]
    /\ buffer = [parsable |-> FALSE, id |-> 0, queries |-> <<>>]
    /\ received = <<>>
    /\ tasks = <<>>
    /\ main_pc = "none"

QueryIdle ==
    /\ models = <<"m1">>
    /\ client = [pc |-> "done", api_key |-> <<"k">>, models |-> <<"m1">>,
                 http_client_builds |-> TRUE,
                 result |-> [some |-> TRUE, val |-> [ok |-> TRUE]]]
    /\ prompt = <<>>
    /\ query = [pc |-> "idle", index |-> 0, last_error |-> [some |-> FALSE],
                attempts |-> <<>>, result |-> [some |-> FALSE]]

RECURSIVE TextsUpTo(_)
TextsUpTo(n) ==
    IF n = 0 THEN { <<>> }
    ELSE LET shorter == TextsUpTo(n - 1)
         IN  shorter \cup { t \o c : t \in shorter, c \in Utf8Chars }

RECURSIVE NamesUpTo(_)
NamesUpTo(n) ==
    IF n = 0 THEN { <<>> }
    ELSE LET shorter == NamesUpTo(n - 1)
         IN  shorter \cup { Append(t, c) : t \in shorter, c \in NameChars }

Min(a, b) == IF a <= b THEN a ELSE b

----------------------------------------------------------------------------
(* src/src/chunker.rs *)

\* str::is_char_boundary as called at line 101: offset 0 and the end are
\* boundaries, any other offset is one unless the byte there is a
\* continuation byte (10xxxxxx).
is_char_boundary(t, i) ==
    IF i = 0 THEN TRUE
    ELSE IF i >= Len(t) THEN i = Len(t)
    ELSE ~(t[i + 1] \in 128..191)

\* the loop "for i in (0..=n).rev()" of find_char_boundary, from i downwards
RECURSIVE ScanBack(_, _)
ScanBack(t, i) ==
    IF is_char_boundary(t, i) THEN i
    ELSE IF i = 0 THEN 0
    ELSE ScanBack(t, i - 1)

\* a cut at the candidate position without the backward scan
find_char_boundary_NoScan(t, max_bytes) == Min(max_bytes, Len(t))

find_char_boundary(t, max_bytes) == ScanBack(t, Min(max_bytes, Len(t)))

\* a truncation that keeps the whole text
truncate_to_char_boundary_Keep(t, max_bytes) == t

truncate_to_char_boundary(t, max_bytes) ==
    IF Len(t) <= max_bytes THEN t
    ELSE SubSeq(t, 1, find_char_boundary(t, max_bytes))

\* a truncation that starts at the limit and keeps one byte less
TextToChunk_OffByOne(t, mts) ==
    IF Len(t) >= mts /\ mts > 0 THEN truncate_to_char_boundary(t, mts - 1) ELSE t

\* lines 63-68
TextToChunk(t, mts) ==
    IF Len(t) > mts THEN truncate_to_char_boundary(t, mts) ELSE t

\* a chunk size that ignores max_chunk_size
chunk_size_Whole(rem, mcs) == Len(rem)

\* line 80
chunk_size(rem, mcs) == Min(mcs, Len(rem))

\* a split that looks for the boundary one byte too early
split_point_Shorter(rem, mcs) ==
    IF chunk_size(rem, mcs) > 1
    THEN find_char_boundary(rem, chunk_size(rem, mcs) - 1)
    ELSE find_char_boundary(rem, chunk_size(rem, mcs))

\* line 83
split_point(rem, mcs) == find_char_boundary(rem, chunk_size(rem, mcs))

\* an entry without the test of lines 58-60 for the empty text
ChunkStart_NoEmptyCheck ==
    /\ cpc = "start"
    /\ text_to_chunk' = TextToChunk(text, max_total_size)
    /\ IF Len(text_to_chunk') <= max_chunk_size
       THEN /\ chunks' = << text_to_chunk' >>
            /\ cpc' = "done"
            /\ UNCHANGED remaining
       ELSE /\ chunks' = <<>>
            /\ remaining' = text_to_chunk'
            /\ cpc' = "loop"
    /\ UNCHANGED <<text, max_chunk_size, max_total_size>>
    /\ UNCHANGED <<models, queryVars, serverVars, dnsVars>>

\* lines 56-77: the empty text, the truncation, the single chunk, or the
\* entry into the cutting loop
ChunkStart ==
    /\ cpc = "start"
    /\ IF text = <<>>
       THEN /\ chunks' = <<>>
            /\ cpc' = "done"
            /\ UNCHANGED <<text_to_chunk, remaining>>
       ELSE /\ text_to_chunk' = TextToChunk(text, max_total_size)
            /\ IF Len(text_to_chunk') <= max_chunk_size
               THEN /\ chunks' = << text_to_chunk' >>
                    /\ cpc' = "done"
                    /\ UNCHANGED remaining
               ELSE /\ chunks' = <<>>
                    /\ remaining' = text_to_chunk'
                    /\ cpc' = "loop"
    /\ UNCHANGED <<text, max_chunk_size, max_total_size>>
    /\ UNCHANGED <<models, queryVars, serverVars, dnsVars>>

\* lines 79-88: one iteration of "while !remaining.is_empty()"
ChunkCut ==
    /\ cpc = "loop"
    /\ remaining # <<>>
    /\ Len(chunks) < LoopCap
    /\ LET sp == split_point(remaining, max_chunk_size)
       IN  /\ chunks' = Append(chunks, SubSeq(remaining, 1, sp))
           /\ remaining' = SubSeq(remaining, sp + 1, Len(remaining))
    /\ UNCHANGED <<text, max_chunk_size, max_total_size, text_to_chunk, cpc>>
    /\ UNCHANGED <<models, queryVars, serverVars, dnsVars>>

\* lines 79 and 90: the loop ends and chunks is returned
ChunkReturn ==
    /\ cpc = "loop"
    /\ remaining = <<>>
    /\ cpc' = "done"
    /\ UNCHANGED <<text, max_chunk_size, max_total_size, text_to_chunk, remaining, chunks>>
    /\ UNCHANGED <<models, queryVars, serverVars, dnsVars>>

\* chunk_text as a function, for callers that use its result (lines 56-91)
RECURSIVE CutAll(_, _, _)
CutAll(rem, mcs, acc) ==
    IF rem = <<>> THEN acc
    ELSE LET sp == split_point(rem, mcs)
         IN  CutAll(SubSeq(rem, sp + 1, Len(rem)), mcs, Append(acc, SubSeq(rem, 1, sp)))

chunk_text(t, mcs, mts) ==
    IF t = <<>> THEN <<>>
    ELSE LET ttc == TextToChunk(t, mts)
         IN  IF Len(ttc) <= mcs THEN << ttc >> ELSE CutAll(ttc, mcs, <<>>)

\* one invocation of chunk_text on any text, with any sizes
ChunkInit ==
    /\ DnsIdle
    /\ text \in TextsUpTo(MaxChars)
    /\ max_chunk_size \in 0..MaxChunkBytes
    /\ max_total_size \in 0..MaxTotalBytes
    /\ text_to_chunk = <<>>
    /\ remaining = <<>>
    /\ chunks = <<>>
    /\ cpc = "start"
    /\ QueryIdle
    /\ ServerIdle

ChunkIdle ==
    /\ text = <<>>
    /\ max_chunk_size = 250
    /\ max_total_size = 4096
    /\ text_to_chunk = <<>>
    /\ remaining = <<>>
    /\ chunks = <<>>
    /\ cpc = "idle"

ChunkNext == ChunkStart \/ ChunkCut \/ ChunkReturn

SpecChunk == ChunkInit /\ [][ChunkNext]_vars

----------------------------------------------------------------------------
(* src/src/llm_client.rs *)

\* Option<T>
None == [some |-> FALSE]
Some(v) == [some |-> TRUE, val |-> v]

\* Result<String>
Ok(content) == [ok |-> TRUE, content |-> content]
Err(kind, status) == [ok |-> FALSE, error |-> [kind |-> kind, status |-> status]]

\* a constructor that accepts an empty model list
LlmClient_new_NoModelsCheck(api_key, ms, http_client_builds) ==
    IF api_key = <<>> THEN Err("ApiKeyEmpty", 0)
    ELSE IF ~http_client_builds THEN Err("HttpClientBuild", 0)
    ELSE [ok |-> TRUE]

\* lines 59-80: LlmClient::new refuses an empty key and an empty model list,
\* then builds the HTTP client, which can fail too
LlmClient_new(api_key, ms, http_client_builds) ==
    IF api_key = <<>> THEN Err("ApiKeyEmpty", 0)
    ELSE IF ms = <<>> THEN Err("ModelsEmpty", 0)
    ELSE IF ~http_client_builds THEN Err("HttpClientBuild", 0)
    ELSE [ok |-> TRUE]

\* a call of LlmClient::new that returned the client
Built(api_key, ms) ==
    [pc |-> "done", api_key |-> api_key, models |-> ms,
     http_client_builds |-> TRUE, result |-> Some([ok |-> TRUE])]

\* what the completion endpoint can answer to one request: no answer at all
\* (connection refused, timeout), or a status with a body; the body of a 200
\* either parses as {choices: [...]} or does not
NoBody == [parsable |-> FALSE, choices |-> <<>>]

Bodies200 ==
    {NoBody} \cup
    { [parsable |-> TRUE, choices |-> cs] :
          cs \in UNION { [1..n -> Contents] : n \in 0..MaxChoices } }

ErrorStatuses == {429, 404, 500, 401, 400, 503}

HttpResponses ==
    { [kind |-> "transport_error", status |-> 0, body |-> NoBody] }
    \cup { [kind |-> "http", status |-> 200, body |-> b] : b \in Bodies200 }
    \cup { [kind |-> "http", status |-> s, body |-> NoBody] : s \in ErrorStatuses }

\* an attempt that takes the first choice if there is one and the empty
\* text otherwise
query_single_model_DefaultContent(p, model, resp) ==
    IF resp.kind = "transport_error" THEN Err("NetworkFailure", 0)
    ELSE CASE resp.status = 200 ->
                  IF ~resp.body.parsable THEN Err("MalformedResponse", 200)
                  ELSE IF resp.body.choices = <<>> THEN Ok(<<>>)
                  ELSE Ok(resp.body.choices[1])
           [] resp.status = 429 -> Err("RateLimited", 429)
           [] resp.status = 404 -> Err("NotFoundOrPolicyRestricted", 404)
           [] resp.status = 500 -> Err("UpstreamServerError", 500)
           [] resp.status = 401 -> Err("Unauthorized", 401)
           [] resp.status = 400 -> Err("BadRequest", 400)
           [] OTHER -> Err("UnexpectedStatus", resp.status)

\* lines 162-210: the outcome of one attempt, from the endpoint's answer
query_single_model(p, model, resp) ==
    IF resp.kind = "transport_error" THEN Err("NetworkFailure", 0)
    ELSE CASE resp.status = 200 ->
                  IF ~resp.body.parsable THEN Err("MalformedResponse", 200)
                  ELSE IF resp.body.choices = <<>> THEN Err("NoChoices", 200)
                  ELSE Ok(resp.body.choices[1])
           [] resp.status = 429 -> Err("RateLimited", 429)
           [] resp.status = 404 -> Err("NotFoundOrPolicyRestricted", 404)
           [] resp.status = 500 -> Err("UpstreamServerError", 500)
           [] resp.status = 401 -> Err("Unauthorized", 401)
           [] resp.status = 400 -> Err("BadRequest", 400)
           [] OTHER -> Err("UnexpectedStatus", resp.status)

\* an invocation of query that has not started
QueryNotStarted ==
    [pc |-> "start", index |-> 0, last_error |-> None, attempts |-> <<>>, result |-> None]

\* an entry that sends the empty prompt to the first model
QueryEnter_NoPromptCheck(ms, p) ==
    IF ms = <<>>
    THEN [QueryNotStarted EXCEPT !.pc = "done", !.result = Some(Err("AllModelsFailed", 0))]
    ELSE [QueryNotStarted EXCEPT !.pc = "await", !.index = 1]

\* lines 102-116: the empty prompt is refused; otherwise the loop starts and
\* the request to the first model is sent (index counts from 1 here)
QueryEnter(ms, p) ==
    IF p = <<>>
    THEN [QueryNotStarted EXCEPT !.pc = "done", !.result = Some(Err("EmptyPrompt", 0))]
    ELSE IF ms = <<>>
    THEN [QueryNotStarted EXCEPT !.pc = "done", !.result = Some(Err("AllModelsFailed", 0))]
    ELSE [QueryNotStarted EXCEPT !.pc = "await", !.index = 1]

\* a success that is remembered while the loop goes on to the next model
OnOk_Continue(q, ms, content) ==
    IF q.index < Len(ms)
    THEN [q EXCEPT !.index = q.index + 1, !.result = Some(Ok(content))]
    ELSE [q EXCEPT !.pc = "done", !.result = Some(Ok(content))]

\* lines 117-120: the first success is returned at once
OnOk(q, ms, content) ==
    [q EXCEPT !.pc = "done", !.result = Some(Ok(content))]

\* a last_error slot that keeps the first error
OnErr_KeepFirst(q, ms, e) ==
    LET q1 == [q EXCEPT !.last_error = IF q.last_error.some THEN q.last_error ELSE Some(e)]
    IN  IF q.index < Len(ms)
        THEN [q1 EXCEPT !.index = q.index + 1]
        ELSE [q1 EXCEPT !.pc = "done",
                        !.result = Some([ok |-> FALSE, error |-> q1.last_error.val])]

\* a loop that gives up on a refused credential instead of going on
OnErr_StopsOnUnauthorized(q, ms, e) ==
    LET q1 == [q EXCEPT !.last_error = Some(e)]
    IN  IF q.index < Len(ms) /\ e.kind # "Unauthorized"
        THEN [q1 EXCEPT !.index = q.index + 1]
        ELSE [q1 EXCEPT !.pc = "done",
                        !.result = Some([ok |-> FALSE, error |-> q1.last_error.val])]

\* a loop that tries the last model once more before it gives up
OnErr_ExtraAttempt(q, ms, e) ==
    LET q1 == [q EXCEPT !.last_error = Some(e)]
    IN  IF q.index < Len(ms)
        THEN [q1 EXCEPT !.index = q.index + 1]
        ELSE IF Len(q.attempts) <= Len(ms)
        THEN q1
        ELSE [q1 EXCEPT !.pc = "done",
                        !.result = Some([ok |-> FALSE, error |-> q1.last_error.val])]

\* lines 121-136: the error replaces last_error; the loop goes on to the next
\* model, or ends and returns last_error
OnErr(q, ms, e) ==
    LET q1 == [q EXCEPT !.last_error = Some(e)]
    IN  IF q.index < Len(ms)
        THEN [q1 EXCEPT !.index = q.index + 1]
        ELSE [q1 EXCEPT !.pc = "done",
                        !.result = Some([ok |-> FALSE, error |-> q1.last_error.val])]

\* lines 113-133: the answer to the request in flight arrives
QueryAttempt(q, ms, p, resp) ==
    LET model == ms[q.index]
        r == query_single_model(p, model, resp)
        q1 == [q EXCEPT !.attempts = Append(q.attempts,
                        [model |-> model, response |-> resp, outcome |-> r])]
    IN  IF r.ok THEN OnOk(q1, ms, r.content) ELSE OnErr(q1, ms, r.error)

\* LlmClient::query is called
QueryCall ==
    /\ query.pc = "start"
    /\ query' = QueryEnter(models, prompt)
    /\ UNCHANGED <<chunkVars, client, models, prompt, serverVars, dnsVars>>

\* the endpoint answers the request in flight
QueryRespond ==
    /\ query.pc = "await"
    /\ \E resp \in HttpResponses : query' = QueryAttempt(query, models, prompt, resp)
    /\ UNCHANGED <<chunkVars, client, models, prompt, serverVars, dnsVars>>

\* lines 59-80: LlmClient::new is called; the client it returns holds the
\* model list and can be queried
New ==
    /\ client.pc = "new"
    /\ LET r == LlmClient_new(client.api_key, client.models, client.http_client_builds)
       IN  /\ client' = [client EXCEPT !.pc = "done", !.result = Some(r)]
           /\ IF r.ok
              THEN /\ models' = client.models
                   /\ query' = QueryNotStarted
              ELSE UNCHANGED <<models, query>>
    /\ UNCHANGED <<chunkVars, prompt, serverVars, dnsVars>>

\* one invocation of query, on an engine LlmClient::new accepts (lines 59-80)
QueryInit ==
    /\ DnsIdle
    /\ models \in ModelLists
    /\ client = Built(<<"k">>, models)
    /\ prompt \in Prompts
    /\ query = QueryNotStarted
    /\ ChunkIdle
    /\ ServerIdle

QueryNext == QueryCall \/ QueryRespond

SpecQuery == QueryInit /\ [][QueryNext]_vars

\* LlmClient::new on any credential and any model list, then one invocation
\* of query on the client if one was returned
EngineInit ==
    /\ DnsIdle
    /\ client \in [pc : {"new"}, api_key : ApiKeys, models : ModelListArgs,
                    http_client_builds : BOOLEAN, result : {None}]
    /\ models = <<>>
    /\ prompt \in Prompts
    /\ query = [pc |-> "idle", index |-> 0, last_error |-> None,
                attempts |-> <<>>, result |-> None]
    /\ ChunkIdle
    /\ ServerIdle

EngineNext == New \/ QueryCall \/ QueryRespond

SpecEngine == EngineInit /\ [][EngineNext]_vars

----------------------------------------------------------------------------
(* src/src/dns_handler.rs *)

\* char::is_whitespace, for the characters of the model
IsWhitespace(c) == c \in {" ", "\t", "\n"}

RECURSIVE trim_start(_)
trim_start(s) ==
    IF s # <<>> /\ IsWhitespace(Head(s)) THEN trim_start(Tail(s)) ELSE s

RECURSIVE trim_end(_)
trim_end(s) ==
    IF s # <<>> /\ IsWhitespace(s[Len(s)]) THEN trim_end(SubSeq(s, 1, Len(s) - 1)) ELSE s

\* str::trim
trim(s) == trim_end(trim_start(s))

\* str::trim_end_matches(c): every trailing occurrence of c is removed
RECURSIVE trim_end_matches(_, _)
trim_end_matches(s, c) ==
    IF s # <<>> /\ s[Len(s)] = c THEN trim_end_matches(SubSeq(s, 1, Len(s) - 1), c) ELSE s

\* an extraction without the check of line 149
parse_subdomain_NoEmptyCheck(d) == Ok(trim_end_matches(trim(d), "."))

\* lines 144-155
parse_subdomain(d) ==
    LET q == trim_end_matches(trim(d), ".")
    IN  IF q = <<>> THEN Err("EmptyQuery", 0) ELSE Ok(q)

\* parse_subdomain is called on domain and returns
ParseSubdomain ==
    /\ parsed = None
    /\ parsed' = Some(parse_subdomain(domain))
    /\ UNCHANGED <<domain, chunkVars, models, queryVars, serverVars>>

\* one invocation of parse_subdomain on any text
ExtractInit ==
    /\ domain \in NamesUpTo(MaxNameLen)
    /\ parsed = None
    /\ ChunkIdle
    /\ QueryIdle
    /\ ServerIdle

ExtractNext == ParseSubdomain

SpecExtract == ExtractInit /\ [][ExtractNext]_vars

----------------------------------------------------------------------------
(* src/src/server.rs *)

\* the datagrams a client can send: bytes that do not parse as a message,
\* or a message with an identifier and a list of questions
Garbage == [parsable |-> FALSE, id |-> 0, queries |-> <<>>]

\* a TXT question for each name, and an A question
Questions ==
    { [name |-> n, query_type |-> "TXT"] : n \in QueryNames }
    \cup { [name |-> <<"h", "i", ".">>, query_type |-> "A"] }

QuestionLists == UNION { [1..n -> Questions] : n \in 0..MaxQuestions }

\* the messages one invocation of handle_dns_request is checked on
Messages == [parsable : {TRUE}, id : Ids, queries : QuestionLists]

\* the datagrams the listener of the model receives: each client sends,
\* under its own identifier, messages with no question or with one
ServedQuestionLists == { <<>> } \cup { <<q>> : q \in Questions }

Clients == { [addr |-> "c1", id |-> 1], [addr |-> "c2", id |-> 2] }

\* lines 354-365: the task as spawned, holding its own request_msg and
\* remote_addr, with the response still to be built; llm_results is
\* history: what each call of LlmClient::query of the task returned
NewTask(msg, addr) ==
    [request_msg |-> msg, remote_addr |-> addr, pc |-> "spawned", qi |-> 0,
     response_code |-> "NoError", answers |-> <<>>, query |-> QueryNotStarted,
     llm_results |-> <<>>, sent |-> <<>>, result |-> None]

\* a non-TXT question that is skipped without a status
OnNonTxt_NoCode(t) == [t EXCEPT !.qi = t.qi + 1]

\* a non-TXT question that ends the loop over the questions
OnNonTxt_Break(t) ==
    [t EXCEPT !.response_code = "NotImp", !.qi = Len(t.request_msg.queries) + 1]

\* lines 375-383: a question that is not TXT
OnNonTxt(t) == [t EXCEPT !.response_code = "NotImp", !.qi = t.qi + 1]

\* a failure of process_query that leaves the status alone
OnQueryErr_NoCode(t) == [t EXCEPT !.qi = t.qi + 1, !.query = QueryNotStarted]

\* a failure of process_query that also empties the answer section
OnQueryErr_ClearsAnswers(t) ==
    [t EXCEPT !.response_code = "ServFail", !.answers = <<>>,
              !.qi = t.qi + 1, !.query = QueryNotStarted]

\* lines 393-396: process_query failed
OnQueryErr(t) ==
    [t EXCEPT !.response_code = "ServFail", !.qi = t.qi + 1, !.query = QueryNotStarted]

\* lines 101-119: one TXT record per chunk, owned by the question's name
BuildRecords(name, response_text) ==
    LET cs == chunk_text(response_text, 250, 4096)
    IN  [i \in 1..Len(cs) |-> [name |-> name, ttl |-> 300, txt |-> cs[i]]]

\* a success of process_query that sets the status back to NoError
OnQueryOk_ResetsStatus(t, response_text) ==
    [t EXCEPT !.answers = t.answers \o
                  BuildRecords(t.request_msg.queries[t.qi].name, response_text),
              !.response_code = "NoError",
              !.qi = t.qi + 1,
              !.query = QueryNotStarted]

\* lines 387-392: process_query succeeded
OnQueryOk(t, response_text) ==
    [t EXCEPT !.answers = t.answers \o
                  BuildRecords(t.request_msg.queries[t.qi].name, response_text),
              !.qi = t.qi + 1,
              !.query = QueryNotStarted]

\* lines 98 and 386-397, once LlmClient::query has returned
OnQueryResult(t, r) ==
    LET t1 == [t EXCEPT !.llm_results = Append(t.llm_results, r)]
    IN  IF r.ok THEN OnQueryOk(t1, r.content) ELSE OnQueryErr(t1)

\* lines 367-398 and 88-98: the questions from t.qi on, up to the next
\* completion request that has to be awaited, or to the end of the loop
RECURSIVE RunQueries(_)
RunQueries(t) ==
    IF t.qi > Len(t.request_msg.queries) THEN [t EXCEPT !.pc = "respond"]
    ELSE LET question == t.request_msg.queries[t.qi]
             p == parse_subdomain(question.name)
         IN  IF question.query_type # "TXT" THEN RunQueries(OnNonTxt(t))
             ELSE IF ~p.ok THEN RunQueries(OnQueryErr(t))
             ELSE LET q == QueryEnter(models, p.content)
                  IN  IF q.pc = "done"
                      THEN RunQueries(OnQueryResult(t, q.result.val))
                      ELSE [t EXCEPT !.pc = "await_llm", !.query = q]

\* a response that takes its identifier from the shared receive buffer
ResponseId_FromBuffer(t) == buffer.id

\* line 355
ResponseId(t) == t.request_msg.id

\* lines 354-362 and 401: the response message
BuildResponse(t) ==
    [id |-> ResponseId(t),
     message_type |-> "Response",
     recursion_available |-> FALSE,
     authoritative |-> TRUE,
     response_code |-> t.response_code,
     answers |-> t.answers]

\* lines 228-248: the bind address parses and the socket binds, or start()
\* returns the error
Start ==
    /\ listener = "init"
    /\ \E ok \in BOOLEAN :
          IF ok
          THEN /\ listener' = "serving"
               /\ shutdown_rx' = [subscribed |-> TRUE, pending |-> FALSE]
          ELSE /\ listener' = "failed"
               /\ UNCHANGED shutdown_rx
    /\ UNCHANGED <<buffer, received, tasks, main_pc, shutdown_result, chunkVars, models, queryVars, dnsVars>>

\* a loop that receives the next datagram only when every task has ended
RecvMessage_OneAtATime ==
    /\ listener = "serving"
    /\ Len(tasks) < MaxDatagrams
    /\ \A k \in 1..Len(tasks) : tasks[k].pc = "done"
    /\ \E c \in Clients, qs \in ServedQuestionLists :
          LET msg == [parsable |-> TRUE, id |-> c.id, queries |-> qs]
          IN  /\ buffer' = msg
              /\ received' = Append(received, [from |-> c.addr, msg |-> msg])
              /\ tasks' = Append(tasks, NewTask(msg, c.addr))
    /\ UNCHANGED <<listener, shutdown_rx, main_pc, shutdown_result, chunkVars, models, queryVars, dnsVars>>

\* lines 260-284: a datagram that parses is received and its task spawned
RecvMessage ==
    /\ listener = "serving"
    /\ Len(tasks) < MaxDatagrams
    /\ \E c \in Clients, qs \in ServedQuestionLists :
          LET msg == [parsable |-> TRUE, id |-> c.id, queries |-> qs]
          IN  /\ buffer' = msg
              /\ received' = Append(received, [from |-> c.addr, msg |-> msg])
              /\ tasks' = Append(tasks, NewTask(msg, c.addr))
    /\ UNCHANGED <<listener, shutdown_rx, main_pc, shutdown_result, chunkVars, models, queryVars, dnsVars>>

\* a parse failure that ends the receive loop with an error
RecvGarbage_Fatal ==
    /\ listener = "serving"
    /\ buffer' = Garbage
    /\ listener' = "failed"
    /\ UNCHANGED <<shutdown_rx, received, tasks, main_pc, shutdown_result, chunkVars, models, queryVars, dnsVars>>

\* lines 260-266 and 285-287: a datagram that does not parse is dropped
RecvGarbage ==
    /\ listener = "serving"
    /\ buffer' = Garbage
    /\ UNCHANGED <<listener, shutdown_rx, received, tasks, main_pc, shutdown_result, chunkVars, models, queryVars, dnsVars>>

\* a read error that start() returns
ReadError_Fatal ==
    /\ listener = "serving"
    /\ listener' = "failed"
    /\ UNCHANGED <<shutdown_rx, buffer, received, tasks, main_pc, shutdown_result, chunkVars, models, queryVars, dnsVars>>

\* lines 290-293: recv_from fails and the loop pauses
ReadError ==
    /\ listener = "serving"
    /\ listener' = "sleeping"
    /\ UNCHANGED <<shutdown_rx, buffer, received, tasks, main_pc, shutdown_result, chunkVars, models, queryVars, dnsVars>>

\* a pause after which the loop subscribes to the shutdown channel anew
Resume_DropsSignal ==
    /\ listener = "sleeping"
    /\ listener' = "serving"
    /\ shutdown_rx' = [subscribed |-> TRUE, pending |-> FALSE]
    /\ UNCHANGED <<buffer, received, tasks, main_pc, shutdown_result, chunkVars, models, queryVars, dnsVars>>

\* a pause after which start() binds its socket again
Resume_Rebinds ==
    /\ listener = "sleeping"
    /\ listener' = "init"
    /\ UNCHANGED <<shutdown_rx, buffer, received, tasks, main_pc, shutdown_result, chunkVars, models, queryVars, dnsVars>>

\* line 293: the pause ends and the loop goes on
Resume ==
    /\ listener = "sleeping"
    /\ listener' = "serving"
    /\ UNCHANGED <<shutdown_rx, buffer, received, tasks, main_pc, shutdown_result, chunkVars, models, queryVars, dnsVars>>

\* lines 316-321: shutdown() sends on shutdown_tx; with a receiver
\* subscribed by start() the value is queued for it and the call returns Ok
Shutdown ==
    /\ shutdown_rx.subscribed
    /\ ~shutdown_rx.pending
    /\ shutdown_rx' = [shutdown_rx EXCEPT !.pending = TRUE]
    /\ shutdown_result' = [some |-> TRUE, val |-> "Ok"]
    /\ UNCHANGED <<listener, buffer, received, tasks, main_pc, chunkVars, models, queryVars, dnsVars>>

\* a channel that keeps the value for a receiver that subscribes later
ShutdownNoReceiver_RetainsSignal ==
    /\ ~shutdown_rx.subscribed
    /\ shutdown_rx' = [shutdown_rx EXCEPT !.pending = TRUE]
    /\ shutdown_result' = [some |-> TRUE, val |-> "Ok"]
    /\ UNCHANGED <<listener, buffer, received, tasks, main_pc, chunkVars, models, queryVars, dnsVars>>

\* lines 180 and 316-321: shutdown() with no receiver of the channel
\* (Server::new drops the first one, start() has not subscribed its own or
\* has returned and dropped it): send fails, nothing is kept for a later
\* receiver and the call returns Err
ShutdownNoReceiver ==
    /\ ~shutdown_rx.subscribed
    /\ shutdown_result' = [some |-> TRUE, val |-> "Err"]
    /\ UNCHANGED <<listener, shutdown_rx, buffer, received, tasks, main_pc, chunkVars, models, queryVars, dnsVars>>

\* a loop that takes the signal and goes on serving
ObserveShutdown_Continue ==
    /\ listener = "serving"
    /\ shutdown_rx.pending
    /\ shutdown_rx' = [shutdown_rx EXCEPT !.pending = FALSE]
    /\ UNCHANGED <<listener, buffer, received, tasks, main_pc, shutdown_result, chunkVars, models, queryVars, dnsVars>>

\* a loop that takes the signal only when no task is in flight
ObserveShutdown_Drains ==
    /\ listener = "serving"
    /\ shutdown_rx.pending
    /\ \A k \in 1..Len(tasks) : tasks[k].pc = "done"
    /\ listener' = "stopped"
    /\ shutdown_rx' = [subscribed |-> FALSE, pending |-> FALSE]
    /\ UNCHANGED <<buffer, received, tasks, main_pc, shutdown_result, chunkVars, models, queryVars, dnsVars>>

\* lines 254-257 and 300-301: the loop receives the signal, start() returns
\* Ok and drops its receiver
ObserveShutdown ==
    /\ listener = "serving"
    /\ shutdown_rx.pending
    /\ listener' = "stopped"
    /\ shutdown_rx' = [subscribed |-> FALSE, pending |-> FALSE]
    /\ UNCHANGED <<buffer, received, tasks, main_pc, shutdown_result, chunkVars, models, queryVars, dnsVars>>

\* lines 272-283 and 353-398: the spawned task starts to run
TaskRun(k) ==
    /\ k \in 1..Len(tasks)
    /\ tasks[k].pc = "spawned"
    /\ tasks' = [tasks EXCEPT ![k] = RunQueries([tasks[k] EXCEPT !.qi = 1])]
    /\ UNCHANGED <<listener, shutdown_rx, buffer, received, main_pc, shutdown_result, chunkVars, models, queryVars, dnsVars>>

\* an engine that remembers a failure: the model that failed goes to the end
\* of the list the engine shares with every task
TaskLlm_StickyFallback(k) ==
    /\ k \in 1..Len(tasks)
    /\ tasks[k].pc = "await_llm"
    /\ \E resp \in TaskHttpResponses :
          LET t == tasks[k]
              p == parse_subdomain(t.request_msg.queries[t.qi].name).content
              q == QueryAttempt(t.query, models, p, resp)
              failed == ~query_single_model(p, models[t.query.index], resp).ok
          IN  /\ tasks' = [tasks EXCEPT ![k] =
                              IF q.pc = "done"
                              THEN RunQueries(OnQueryResult(t, q.result.val))
                              ELSE [t EXCEPT !.query = q]]
              /\ models' = IF failed THEN Tail(models) \o <<Head(models)>> ELSE models
    /\ UNCHANGED <<listener, shutdown_rx, buffer, received, main_pc, shutdown_result, chunkVars, client, prompt, query, dnsVars>>

\* llm_client.rs lines 116-133 and server.rs lines 386-398: the completion
\* request in flight is answered
TaskLlm(k) ==
    /\ k \in 1..Len(tasks)
    /\ tasks[k].pc = "await_llm"
    /\ \E resp \in TaskHttpResponses :
          LET t == tasks[k]
              p == parse_subdomain(t.request_msg.queries[t.qi].name).content
              q == QueryAttempt(t.query, models, p, resp)
          IN  tasks' = [tasks EXCEPT ![k] =
                            IF q.pc = "done"
                            THEN RunQueries(OnQueryResult(t, q.result.val))
                            ELSE [t EXCEPT !.query = q]]
    /\ UNCHANGED <<listener, shutdown_rx, buffer, received, main_pc, shutdown_result, chunkVars, models, queryVars, dnsVars>>

\* a task that answers only when the status is NoError
TaskRespond_DropFailures(k) ==
    /\ k \in 1..Len(tasks)
    /\ tasks[k].pc = "respond"
    /\ LET t == tasks[k]
       IN  tasks' = [tasks EXCEPT ![k] =
               [t EXCEPT !.pc = "done",
                         !.sent = IF t.response_code = "NoError"
                                  THEN << [to |-> t.remote_addr, msg |-> BuildResponse(t)] >>
                                  ELSE <<>>,
                         !.result = Some(IF t.response_code = "NoError"
                                         THEN "sent" ELSE "dropped")]]
    /\ UNCHANGED <<listener, shutdown_rx, buffer, received, main_pc, shutdown_result, chunkVars, models, queryVars, dnsVars>>

\* a task whose serialization or send failure stops the receive loop
TaskRespond_AbortsListener(k) ==
    /\ k \in 1..Len(tasks)
    /\ tasks[k].pc = "respond"
    /\ \E outcome \in {"sent", "serialize_error", "send_error"} :
          LET t == tasks[k]
          IN  /\ tasks' = [tasks EXCEPT ![k] =
                     [t EXCEPT !.pc = "done",
                               !.sent = IF outcome = "sent"
                                        THEN << [to |-> t.remote_addr, msg |-> BuildResponse(t)] >>
                                        ELSE <<>>,
                               !.result = Some(outcome)]]
              /\ listener' = IF outcome = "sent" THEN listener ELSE "failed"
    /\ UNCHANGED <<shutdown_rx, buffer, received, main_pc, shutdown_result, chunkVars, models, queryVars, dnsVars>>

\* lines 401-418: the response is serialized and sent to remote_addr; either
\* step can fail, and then nothing is sent and the task returns the error
TaskRespond(k) ==
    /\ k \in 1..Len(tasks)
    /\ tasks[k].pc = "respond"
    /\ \E outcome \in {"sent", "serialize_error", "send_error"} :
          LET t == tasks[k]
          IN  tasks' = [tasks EXCEPT ![k] =
                  [t EXCEPT !.pc = "done",
                            !.sent = IF outcome = "sent"
                                     THEN << [to |-> t.remote_addr, msg |-> BuildResponse(t)] >>
                                     ELSE <<>>,
                            !.result = Some(outcome)]]
    /\ UNCHANGED <<listener, shutdown_rx, buffer, received, main_pc, shutdown_result, chunkVars, models, queryVars, dnsVars>>

\* Server::new (lines 159-187): the engine, the default chunker, no receiver
\* of the shutdown channel yet
Init ==
    /\ DnsIdle
    /\ models = ServerModels
    /\ client = Built(<<"k">>, ServerModels)
    /\ prompt = <<>>
    /\ query = [pc |-> "idle", index |-> 0, last_error |-> None,
                attempts |-> <<>>, result |-> None]
    /\ ChunkIdle
    /\ listener = "init"
    /\ shutdown_rx = [subscribed |-> FALSE, pending |-> FALSE]
    /\ shutdown_result = [some |-> FALSE]
    /\ buffer = Garbage
    /\ received = <<>>
    /\ tasks = <<>>
    /\ main_pc = "none"

TaskStep(k) == TaskRun(k) \/ TaskLlm(k) \/ TaskRespond(k)

Next ==
    \/ Start
    \/ RecvMessage
    \/ RecvGarbage
    \/ ReadError
    \/ Resume
    \/ Shutdown
    \/ ObserveShutdown
    \/ \E k \in 1..MaxDatagrams : TaskRun(k)
    \/ \E k \in 1..MaxDatagrams : TaskLlm(k)
    \/ \E k \in 1..MaxDatagrams : TaskRespond(k)

Spec == Init /\ [][Next]_vars

\* one invocation of handle_dns_request, on any message from any address,
\* with any engine LlmClient::new accepts
RequestInit ==
    /\ DnsIdle
    /\ models \in ModelLists
    /\ client = Built(<<"k">>, models)
    /\ main_pc = "none"
    /\ prompt = <<>>
    /\ query = [pc |-> "idle", index |-> 0, last_error |-> None,
                attempts |-> <<>>, result |-> None]
    /\ ChunkIdle
    /\ listener = "serving"
    /\ shutdown_rx = [subscribed |-> TRUE, pending |-> FALSE]
    /\ shutdown_result = [some |-> FALSE]
    /\ \E msg \in Messages, addr \in Addrs :
          /\ buffer = msg
          /\ received = << [from |-> addr, msg |-> msg] >>
          /\ tasks = << NewTask(msg, addr) >>

RequestNext == TaskRun(1) \/ TaskLlm(1) \/ TaskRespond(1)

SpecRequest == RequestInit /\ [][RequestNext]_vars

\* every spawned task is scheduled, every completion request ends (by an
\* answer or by the client's timeout) and every send_to completes
FairSpec == Spec /\ \A k \in 1..MaxDatagrams : WF_vars(TaskStep(k))

\* lines 251-260 and 293: tokio::select! polls its ready branches in random
\* order, so the shutdown branch is taken in some iteration once the signal
\* is there however often datagrams are ready too, and the pause after a
\* read error ends
FairLoopSpec == Spec /\ SF_vars(ObserveShutdown) /\ WF_vars(Resume)

\* the receive loop of start() and the calls of shutdown(), made at any
\* time: before start() has subscribed, while it serves, after it has
\* returned; the spawned tasks are left where they are
ListenerNext ==
    \/ Start
    \/ RecvMessage
    \/ RecvGarbage
    \/ ReadError
    \/ Resume
    \/ Shutdown
    \/ ShutdownNoReceiver
    \/ ObserveShutdown

SpecListener == Init /\ [][ListenerNext]_vars

----------------------------------------------------------------------------
(* src/src/main.rs *)

\* main.rs lines 116-121: Ctrl+C wins the select; main calls
\* server.shutdown(), whose send reaches the receiver of start() if there is
\* one and fails otherwise, and goes on to return without awaiting
\* server_task
CtrlC ==
    /\ main_pc = "select"
    /\ main_pc' = "returning"
    /\ shutdown_rx' = IF shutdown_rx.subscribed
                      THEN [shutdown_rx EXCEPT !.pending = TRUE]
                      ELSE shutdown_rx
    /\ shutdown_result' = [some |-> TRUE,
                           val |-> IF shutdown_rx.subscribed THEN "Ok" ELSE "Err"]
    /\ UNCHANGED <<listener, buffer, received, tasks, chunkVars, models, queryVars, dnsVars>>

\* main.rs lines 102-115: server_task has ended (start() returned) and wins
\* the select
ServerTaskEnds ==
    /\ main_pc = "select"
    /\ listener \in {"stopped", "failed"}
    /\ main_pc' = "returning"
    /\ UNCHANGED <<listener, shutdown_rx, shutdown_result, buffer, received, tasks, chunkVars, models, queryVars, dnsVars>>

\* what the end of the tokio runtime does to a spawned task: one that has
\* not ended is dropped where it is suspended
Dropped(t) == IF t.pc = "done" THEN t ELSE [t EXCEPT !.pc = "cancelled"]

\* main.rs lines 23 and 124: main returns, the runtime of #[tokio::main] is
\* dropped and the process exits; the server task and the per-datagram
\* tasks that have not ended are dropped with it
MainReturn ==
    /\ main_pc = "returning"
    /\ main_pc' = "exited"
    /\ listener' = IF listener \in {"stopped", "failed"} THEN listener ELSE "cancelled"
    /\ shutdown_rx' = [subscribed |-> FALSE, pending |-> FALSE]
    /\ tasks' = [k \in 1..Len(tasks) |-> Dropped(tasks[k])]
    /\ UNCHANGED <<shutdown_result, buffer, received, chunkVars, models, queryVars, dnsVars>>

\* main.rs lines 84-98: main has built the server and spawned server_task,
\* and waits in the select
MainInit ==
    /\ DnsIdle
    /\ models = ServerModels
    /\ client = Built(<<"k">>, ServerModels)
    /\ prompt = <<>>
    /\ query = [pc |-> "idle", index |-> 0, last_error |-> None,
                attempts |-> <<>>, result |-> None]
    /\ ChunkIdle
    /\ listener = "init"
    /\ shutdown_rx = [subscribed |-> FALSE, pending |-> FALSE]
    /\ shutdown_result = [some |-> FALSE]
    /\ buffer = Garbage
    /\ received = <<>>
    /\ tasks = <<>>
    /\ main_pc = "select"

\* the program: the listener and its tasks, stopped only by Ctrl+C
MainNext ==
    \/ Start
    \/ RecvMessage
    \/ RecvGarbage
    \/ ReadError
    \/ Resume
    \/ ObserveShutdown
    \/ \E k \in 1..MaxDatagrams : TaskRun(k)
    \/ \E k \in 1..MaxDatagrams : TaskLlm(k)
    \/ \E k \in 1..MaxDatagrams : TaskRespond(k)
    \/ CtrlC
    \/ ServerTaskEnds
    \/ MainReturn

SpecMain == MainInit /\ [][MainNext]_vars

\* PROPERTIES
----------------------------------------------------------------------------
(* Helpers of the properties: UTF-8 decoded from the lead bytes, which is  *)
(* independent of the continuation-byte test the chunker relies on.        *)

Utf8Width(b) ==
    IF b < 128 THEN 1
    ELSE IF b \in 192..223 THEN 2
    ELSE IF b \in 224..239 THEN 3
    ELSE 4

\* the offsets at which a character of t starts, and the end of t
RECURSIVE CharOffsetsFrom(_, _)
CharOffsetsFrom(t, i) ==
    IF i >= Len(t) THEN {i}
    ELSE {i} \cup CharOffsetsFrom(t, i + Utf8Width(t[i + 1]))

Boundaries(t) == CharOffsetsFrom(t, 0)

\* t decodes as whole characters: it starts with no continuation byte and
\* its last character is complete
ValidUtf8(t) ==
    /\ Len(t) \in Boundaries(t)
    /\ \A i \in Boundaries(t) : i < Len(t) => ~(t[i + 1] \in 128..191)

RECURSIVE Concat(_)
Concat(ss) == IF ss = <<>> THEN <<>> ELSE Head(ss) \o Concat(Tail(ss))

\* the byte offset in the text at which chunk i ends (0 for i = 0)
ChunkEnd(i) == Len(Concat(SubSeq(chunks, 1, i)))

GreatestBoundaryAtMost(t, n) ==
    CHOOSE k \in Boundaries(t) :
        /\ k <= n
        /\ \A j \in Boundaries(t) : j <= n => j <= k

truncate_to_boundary(t, n) == SubSeq(t, 1, GreatestBoundaryAtMost(t, n))

SingleByte(t) == \A i \in 1..Len(t) : t[i] < 128

----------------------------------------------------------------------------
\* C1: every chunk chunk_text has produced, at any point of the invocation
\* and in its result, has a byte length of at most max_chunk_size.
C1_ChunkWithinSize ==
    \A i \in 1..Len(chunks) : Len(chunks[i]) <= max_chunk_size

\* a returned multi-chunk result of a text longer than max_chunk_size whose
\* first chunk is full
C1_Witness ==
    /\ cpc = "done"
    /\ Len(text) > max_chunk_size
    /\ Len(chunks) >= 2
    /\ Len(chunks[1]) = max_chunk_size

\* C2: each iteration of the cutting loop strictly shortens the remaining
\* text (so that the loop ends and chunk_text returns).
C2_LoopShortens ==
    [][ChunkCut => Len(remaining') < Len(remaining)]_vars

\* C3: when chunk_text returns, the concatenation of the chunks is the text
\* truncated to the greatest character boundary at or before
\* max_total_size (the text itself when it is no longer than that); so its
\* length is at most max_total_size, and exactly that for a single-byte
\* text longer than max_total_size.
C3_ConcatIsTruncation ==
    cpc = "done" =>
        /\ Concat(chunks) = truncate_to_boundary(text, max_total_size)
        /\ Len(text) <= max_total_size => Concat(chunks) = text
        /\ Len(Concat(chunks)) <= max_total_size
        /\ (SingleByte(text) /\ Len(text) > max_total_size)
              => Len(Concat(chunks)) = max_total_size

\* a returned result of several chunks of a text that was truncated at a
\* position inside a multi-byte character
C3_Witness ==
    /\ cpc = "done"
    /\ Len(text) > max_total_size
    /\ max_total_size \notin Boundaries(text)
    /\ Len(chunks) >= 2

\* C4: every chunk starts and ends on a character boundary of the text, the
\* truncation point is a character boundary of the text, and every chunk is
\* valid UTF-8 by itself.
C4_CutsOnBoundaries ==
    /\ \A i \in 0..Len(chunks) : ChunkEnd(i) \in Boundaries(text)
    /\ \A i \in 1..Len(chunks) : ValidUtf8(chunks[i])
    /\ cpc \in {"loop", "done"} => Len(text_to_chunk) \in Boundaries(text)

\* a returned result where the truncation and a cut both fell back from a
\* position inside a multi-byte character
C4_Witness ==
    /\ cpc = "done"
    /\ Len(text) > max_total_size
    /\ max_total_size \notin Boundaries(text)
    /\ Len(chunks) >= 2
    /\ \E i \in 1..(Len(chunks) - 1) :
          /\ Len(chunks[i]) > 0
          /\ Len(chunks[i]) < max_chunk_size

----------------------------------------------------------------------------
\* C5: a successful attempt is the last attempt of the invocation, which
\* then returns that attempt's content; and a query that returned a content
\* tried models[1..k] in list order, the first k-1 failing and the k-th
\* giving the content returned.
C5_FirstSuccessWins ==
    /\ \A i \in 1..Len(query.attempts) :
          query.attempts[i].outcome.ok =>
              /\ i = Len(query.attempts)
              /\ query.pc = "done"
              /\ query.result = Some(Ok(query.attempts[i].outcome.content))
    /\ (query.pc = "done" /\ query.result.val.ok) =>
          LET k == Len(query.attempts)
          IN  /\ k \in 1..Len(models)
              /\ \A i \in 1..k : query.attempts[i].model = models[i]
              /\ \A i \in 1..(k - 1) : ~query.attempts[i].outcome.ok
              /\ query.attempts[k].outcome = query.result.val

\* models [m1, m2]: m1 is rate limited, m2 answers, and the query has
\* returned m2's content after exactly these two attempts
C5_Witness ==
    /\ models = <<"m1", "m2">>
    /\ query.pc = "done"
    /\ Len(query.attempts) = 2
    /\ query.attempts[1].model = "m1"
    /\ query.attempts[1].outcome = Err("RateLimited", 429)
    /\ query.attempts[2].model = "m2"
    /\ query.attempts[2].outcome = Ok(<<97>>)
    /\ query.result = Some(Ok(<<97>>))

\* C6: a query on a non-empty prompt that returns an error has tried every
\* model of the list once, in order, all failing, and the error returned is
\* the error of the last model's attempt.
C6_LastErrorSurfaces ==
    (query.pc = "done" /\ prompt # <<>> /\ ~query.result.val.ok) =>
        LET n == Len(models)
        IN  /\ Len(query.attempts) = n
            /\ \A i \in 1..n :
                  /\ query.attempts[i].model = models[i]
                  /\ ~query.attempts[i].outcome.ok
            /\ query.result.val.error = query.attempts[n].outcome.error

\* three models failing with three different errors; the query has returned
\* the third
C6_Witness ==
    /\ Len(models) = 3
    /\ query.pc = "done"
    /\ Len(query.attempts) = 3
    /\ query.attempts[1].outcome = Err("RateLimited", 429)
    /\ query.attempts[2].outcome = Err("NetworkFailure", 0)
    /\ query.attempts[3].outcome = Err("NoChoices", 200)
    /\ query.result = Some(Err("NoChoices", 200))

----------------------------------------------------------------------------
(* Helpers of the properties on responses: what happened to each question  *)
(* of the request of task k, told from the datagram as it arrived          *)
(* (received) and from what the engine returned (llm_results).             *)

IsTxt(question) == question.query_type = "TXT"

\* the questions of the request task k was spawned for
RequestQueries(k) == received[k].msg.queries

\* the position, among the engine calls of task k, of the call for question j
LlmIndex(k, j) ==
    Cardinality({ i \in 1..j : /\ IsTxt(RequestQueries(k)[i])
                               /\ parse_subdomain(RequestQueries(k)[i].name).ok })

\* "not_txt", "failed" (no prompt, or every model failed) or "resolved"
QuestionOutcome(k, j) ==
    LET question == RequestQueries(k)[j]
    IN  IF ~IsTxt(question) THEN "not_txt"
        ELSE IF ~parse_subdomain(question.name).ok THEN "failed"
        ELSE IF tasks[k].llm_results[LlmIndex(k, j)].ok THEN "resolved"
        ELSE "failed"

\* the answer text of a resolved question
AnswerText(k, j) == tasks[k].llm_results[LlmIndex(k, j)].content

\* the responses task k has sent, as (task, position) pairs
SentResponses == { <<k, i>> : k \in 1..Len(tasks), i \in 1..2 } \cap
                 { p \in (1..Len(tasks)) \X (1..2) : p[2] <= Len(tasks[p[1]].sent) }

----------------------------------------------------------------------------
\* C7 (as claimed): every response sent is NoError with at least one answer
\* record, or NotImp with none, or ServFail with none.
C7_ThreeShapes ==
    \A p \in SentResponses :
        LET r == tasks[p[1]].sent[p[2]].msg
        IN  \/ r.response_code = "NoError" /\ Len(r.answers) >= 1
            \/ r.response_code = "NotImp" /\ r.answers = <<>>
            \/ r.response_code = "ServFail" /\ r.answers = <<>>

\* C7 (amended): every response sent has one of the statuses NoError, NotImp
\* and ServFail. NoError: every question is a TXT question that resolved.
\* NotImp: some question is not TXT. ServFail: some TXT question failed.
\* A NotImp or ServFail response to a request of one question has no answer
\* record; in general the response has no answer record exactly when no
\* question resolved to a non-empty text.
C7_ResponseShapes ==
    \A p \in SentResponses :
        LET k == p[1]
            r == tasks[k].sent[p[2]].msg
            n == Len(RequestQueries(k))
        IN  /\ r.response_code \in {"NoError", "NotImp", "ServFail"}
            /\ r.response_code = "NoError" =>
                   \A j \in 1..n : QuestionOutcome(k, j) = "resolved"
            /\ r.response_code = "NotImp" =>
                   \E j \in 1..n : QuestionOutcome(k, j) = "not_txt"
            /\ r.response_code = "ServFail" =>
                   \E j \in 1..n : QuestionOutcome(k, j) = "failed"
            /\ (r.response_code # "NoError" /\ n <= 1) => r.answers = <<>>
            /\ r.answers = <<>> <=>
                   \A j \in 1..n : QuestionOutcome(k, j) = "resolved"
                                       => AnswerText(k, j) = <<>>

\* a NotImp response that carries the record of a TXT question resolved
\* before the non-TXT question
C7_Witness ==
    \E p \in SentResponses :
        LET k == p[1]
            r == tasks[k].sent[p[2]].msg
        IN  /\ Len(RequestQueries(k)) = 2
            /\ IsTxt(RequestQueries(k)[1])
            /\ ~IsTxt(RequestQueries(k)[2])
            /\ r.response_code = "NotImp"
            /\ Len(r.answers) = 1

\* C8 (as claimed): the response to a request with a non-TXT question has
\* the status NotImp.
C8_NonTxtGivesNotImp ==
    \A p \in SentResponses :
        LET k == p[1]
            r == tasks[k].sent[p[2]].msg
        IN  (\E j \in 1..Len(RequestQueries(k)) : ~IsTxt(RequestQueries(k)[j]))
                => r.response_code = "NotImp"

\* C8 (amended): the response to a request with a non-TXT question has the
\* status NotImp unless a TXT question after the last non-TXT question
\* failed, and then it has the status ServFail; TXT questions that resolve,
\* and failures before the last non-TXT question, do not change it.
C8_NotImpUnlessLaterFailure ==
    \A p \in SentResponses :
        LET k == p[1]
            r == tasks[k].sent[p[2]].msg
            n == Len(RequestQueries(k))
            nonTxt == { j \in 1..n : ~IsTxt(RequestQueries(k)[j]) }
        IN  nonTxt # {} =>
                LET last == CHOOSE j \in nonTxt : \A i \in nonTxt : i <= j
                IN  r.response_code =
                        IF \E j \in (last + 1)..n : QuestionOutcome(k, j) = "failed"
                        THEN "ServFail" ELSE "NotImp"

\* the response NotImp to a request whose non-TXT question comes first and
\* whose TXT question then resolved
C8_Witness ==
    \E p \in SentResponses :
        LET k == p[1]
            r == tasks[k].sent[p[2]].msg
        IN  /\ Len(RequestQueries(k)) = 2
            /\ ~IsTxt(RequestQueries(k)[1])
            /\ QuestionOutcome(k, 2) = "resolved"
            /\ r.response_code = "NotImp"

\* C9 (as claimed): a task that has ended has sent exactly one response.
C9_ExactlyOneResponse ==
    \A k \in 1..Len(tasks) : tasks[k].pc = "done" => Len(tasks[k].sent) = 1

\* what C9 (amended) says of every state: no task has sent two responses, a
\* task sends only as its last step, and a task that ended without a
\* response ended on a failed serialization or a failed send
C9_AtMostOnce ==
    \A k \in 1..Len(tasks) :
        LET t == tasks[k]
        IN  /\ Len(t.sent) <= 1
            /\ t.pc # "done" => t.sent = <<>>
            /\ t.pc = "done" =>
                   /\ t.result.val \in {"sent", "serialize_error", "send_error"}
                   /\ t.sent # <<>> <=> t.result.val = "sent"
            /\ \A i \in 1..Len(t.sent) :
                   /\ t.sent[i].to = received[k].from
                   /\ t.sent[i].msg.message_type = "Response"
                   /\ t.sent[i].msg.response_code \in {"NoError", "NotImp", "ServFail"}

\* C9 (amended): every task spawned for a datagram that parsed eventually
\* ends, whatever its questions and the outcomes of its pipeline, having
\* sent exactly one response to the originating address, or none if the
\* serialization or the send of the response failed; never two.
C9_AnsweredUnlessSendFails ==
    /\ []C9_AtMostOnce
    /\ \A k \in 1..MaxDatagrams :
          (Len(tasks) >= k) ~> (Len(tasks) >= k /\ tasks[k].pc = "done")

\* a task whose TXT question failed on every model has ended and sent its
\* response, and another task has ended on a failed send
C9_Witness ==
    /\ \E k \in 1..Len(tasks) :
          /\ tasks[k].pc = "done"
          /\ tasks[k].llm_results # <<>>
          /\ ~tasks[k].llm_results[1].ok
          /\ Len(tasks[k].sent) = 1
          /\ tasks[k].sent[1].msg.response_code = "ServFail"
    /\ \E k \in 1..Len(tasks) :
          /\ tasks[k].pc = "done"
          /\ tasks[k].result = Some("send_error")

\* C10: each task keeps the request and the address of the datagram it was
\* spawned for, whatever arrives in the receive buffer afterwards, and each
\* response carries the identifier of that datagram and is sent to the
\* address it came from, marked as a reply, authoritative, non-recursive.
C10_ResponseCorrelates ==
    /\ Len(received) = Len(tasks)
    /\ \A k \in 1..Len(tasks) :
          /\ tasks[k].request_msg = received[k].msg
          /\ tasks[k].remote_addr = received[k].from
    /\ \A p \in SentResponses :
          LET k == p[1]
              r == tasks[k].sent[p[2]]
          IN  /\ r.msg.id = received[k].msg.id
              /\ r.to = received[k].from
              /\ r.msg.message_type = "Response"
              /\ r.msg.authoritative
              /\ ~r.msg.recursion_available

\* two tasks of different clients in flight at once: the second datagram
\* has overwritten the receive buffer, the later task has already answered
\* and the earlier one answers after it
C10_Witness ==
    /\ Len(tasks) = 2
    /\ received[1].from # received[2].from
    /\ received[1].msg.id # received[2].msg.id
    /\ buffer = received[2].msg
    /\ tasks[1].sent # <<>>
    /\ tasks[2].sent # <<>>
    /\ tasks[1].llm_results # <<>>

----------------------------------------------------------------------------
\* C11: tasks spawned before the shutdown signal are not cancelled by it:
\* once the listener has stopped, no task in flight has been dropped before
\* the end of its pipeline and the sending of its response.
C11_StoppedCancelsNoTask ==
    listener = "stopped" =>
        \A k \in 1..Len(tasks) : tasks[k].pc # "cancelled"

\* C12: if shutdown() is called while the listener is serving, the receive
\* loop eventually takes the signal and start() returns Ok, even if
\* datagrams keep arriving or read errors keep occurring.
C12_ShutdownStopsLoop ==
    (listener \in {"serving", "sleeping"} /\ shutdown_rx.pending) ~> (listener = "stopped")

\* the loop has stopped on the signal after it spawned a task for a datagram
\* and dropped another one that did not parse
C12_Witness ==
    /\ listener = "stopped"
    /\ ~shutdown_rx.subscribed
    /\ Len(tasks) >= 1
    /\ buffer = Garbage

----------------------------------------------------------------------------
(* Helpers of the properties on parse_subdomain *)

\* the positions of the characters of s that are not whitespace
Inked(s) == { i \in 1..Len(s) : s[i] \notin {" ", "\t", "\n"} }

\* s without its leading and trailing whitespace
Trimmed(s) ==
    IF Inked(s) = {} THEN <<>>
    ELSE LET first == CHOOSE i \in Inked(s) : \A j \in Inked(s) : i <= j
             last == CHOOSE i \in Inked(s) : \A j \in Inked(s) : j <= i
         IN  SubSeq(s, first, last)

\* s without one trailing separator, if it ends with one
StripOneSeparator(s) ==
    IF s # <<>> /\ s[Len(s)] = "." THEN SubSeq(s, 1, Len(s) - 1) ELSE s

\* C13: parse_subdomain trims the whitespace around its argument and then
\* removes exactly one trailing separator if there is one, and no more; what
\* is left, when not empty, is the prompt returned.
C13_StripsOneSeparator ==
    parsed.some =>
        LET left == StripOneSeparator(Trimmed(domain))
        IN  left # <<>> => parsed.val = Ok(left)

----------------------------------------------------------------------------
\* C15: query("") fails with EmptyPrompt before any model is attempted: with
\* an empty prompt no request is ever in flight and none has been answered,
\* whatever the model list.
C15_EmptyPromptNoAttempt ==
    (prompt = <<>> /\ query.pc \notin {"idle", "start"}) =>
        /\ query.pc = "done"
        /\ query.result = Some(Err("EmptyPrompt", 0))
        /\ query.attempts = <<>>
        /\ query.index = 0

\* query("") has returned on an engine of three models
C15_Witness ==
    /\ prompt = <<>>
    /\ Len(models) = 3
    /\ query.pc = "done"
    /\ ~query.result.val.ok

\* C16 (as claimed): construction fails exactly when the credential is empty
\* or the model list is empty.
C16_FailsOnlyOnEmptyArguments ==
    client.pc = "done" =>
        (~client.result.val.ok <=> (client.api_key = <<>> \/ client.models = <<>>))

\* C16 (amended): construction fails when the credential is empty or the
\* model list is empty, and otherwise only when the HTTP client cannot be
\* built; hence every constructed engine has a non-empty model list, only a
\* constructed engine is queried, and a failing query on a non-empty prompt
\* returns the error of its last model attempt, never the generic "all
\* models failed" error.
C16_ConstructedEngineHasModels ==
    /\ client.pc = "done" =>
          /\ (client.api_key = <<>> \/ client.models = <<>>) => ~client.result.val.ok
          /\ ~client.result.val.ok <=>
                 \/ client.api_key = <<>>
                 \/ client.models = <<>>
                 \/ ~client.http_client_builds
          /\ client.result.val.ok => (models = client.models /\ models # <<>>)
    /\ query.pc # "idle" => (client.pc = "done" /\ client.result.val.ok)
    /\ (query.pc = "done" /\ prompt # <<>> /\ ~query.result.val.ok) =>
          /\ query.attempts # <<>>
          /\ query.result.val.error.kind # "AllModelsFailed"
          /\ query.result.val.error =
                 query.attempts[Len(query.attempts)].outcome.error

\* an engine of two models was constructed and its query on a non-empty
\* prompt failed on both
C16_Witness ==
    /\ client.pc = "done"
    /\ client.result.val.ok
    /\ Len(models) = 2
    /\ prompt # <<>>
    /\ query.pc = "done"
    /\ ~query.result.val.ok
    /\ Len(query.attempts) = 2

\* C17: a successful answer is never empty text: query returns Ok(x) only
\* with x non-empty.
C17_AnswerNeverEmpty ==
    (query.pc = "done" /\ query.result.val.ok) => query.result.val.content # <<>>

----------------------------------------------------------------------------
\* C18: chunk_text("") returns the empty sequence, zero chunks and not one
\* empty chunk, for every max_chunk_size and max_total_size, and returns it
\* at once.
C18_EmptyTextNoChunk ==
    (text = <<>> /\ cpc # "start") => (cpc = "done" /\ chunks = <<>>)

\* chunk_text("") has returned, with both sizes at zero
C18_Witness ==
    /\ text = <<>>
    /\ max_chunk_size = 0
    /\ max_total_size = 0
    /\ cpc = "done"
    /\ chunks = <<>>

\* C19: a non-empty text no longer than max_chunk_size and max_total_size
\* is returned as the single chunk [text], also when it has exactly
\* max_chunk_size bytes.
C19_FittingTextIsOneChunk ==
    (/\ text # <<>>
     /\ Len(text) <= max_chunk_size
     /\ Len(text) <= max_total_size
     /\ cpc # "start")
        => (cpc = "done" /\ chunks = << text >>)

\* a text of several characters and exactly max_chunk_size bytes, which is
\* max_total_size too, has come back whole
C19_Witness ==
    /\ Len(text) = max_chunk_size
    /\ Len(text) = max_total_size
    /\ Len(text) >= 3
    /\ cpc = "done"
    /\ chunks = << text >>

\* C20: chunk_text never produces an empty chunk: with max_chunk_size > 0,
\* every chunk of the result has at least one byte, also when the text was
\* truncated to max_total_size.
C20_NoEmptyChunk ==
    (cpc = "done" /\ max_chunk_size > 0) =>
        \A i \in 1..Len(chunks) : chunks[i] # <<>>

----------------------------------------------------------------------------
\* what C21 says of every state: each task was spawned for a datagram that
\* parsed, and each response answers such a datagram
C21_TasksOnlyForMessages ==
    /\ Len(tasks) = Len(received)
    /\ \A k \in 1..Len(tasks) :
          /\ received[k].msg.parsable
          /\ tasks[k].request_msg.parsable
          /\ \A i \in 1..Len(tasks[k].sent) : tasks[k].sent[i].msg.id = received[k].msg.id

\* C21: a datagram that fails to parse is dropped: the step that puts it in
\* the receive buffer spawns no task, sends no response and leaves the
\* listener serving; no task and no response exists but for a datagram that
\* parsed.
C21_GarbageIsDropped ==
    /\ []C21_TasksOnlyForMessages
    /\ [][(buffer # Garbage /\ buffer' = Garbage) =>
              /\ listener = "serving"
              /\ listener' = "serving"
              /\ tasks' = tasks
              /\ received' = received]_vars

\* a datagram that did not parse arrived after one that parsed and was
\* answered; the listener is serving and the one task is the only one
C21_Witness ==
    /\ buffer = Garbage
    /\ listener = "serving"
    /\ Len(tasks) = 1
    /\ tasks[1].sent # <<>>

\* a task that has failed: its status is ServFail, or it ended without
\* sending its response
Failing(t) ==
    \/ t.response_code = "ServFail"
    \/ t.pc = "done" /\ t.result.val # "sent"

\* C23: a failure inside one task (extraction failure, all models failing,
\* serialization or send failure) changes neither the state of the listener
\* nor anything of any other task, the status and records of its response
\* included.
C23_FailuresStayLocal ==
    [][\A k \in 1..Len(tasks) :
          (tasks'[k] # tasks[k] /\ Failing(tasks'[k])) =>
              /\ listener' = listener
              /\ shutdown_rx' = shutdown_rx
              /\ buffer' = buffer
              /\ Len(tasks') = Len(tasks)
              /\ \A j \in 1..Len(tasks) : j # k => tasks'[j] = tasks[j]]_vars

\* one task ended on a failed send after its models failed, the other has
\* answered NoError with a record, and the listener is serving
C23_Witness ==
    /\ listener = "serving"
    /\ Len(tasks) = 2
    /\ tasks[1].pc = "done"
    /\ tasks[1].result = Some("send_error")
    /\ tasks[1].response_code = "ServFail"
    /\ tasks[2].sent # <<>>
    /\ tasks[2].sent[1].msg.response_code = "NoError"
    /\ tasks[2].sent[1].msg.answers # <<>>

----------------------------------------------------------------------------
\* C22: when parse_subdomain succeeds, the prompt is its argument without
\* the whitespace around it and without its trailing separator, every other
\* character unchanged and in order (a contiguous part of the argument).
C22_PromptIsTrimmedInput ==
    (parsed.some /\ parsed.val.ok) =>
        parsed.val.content = StripOneSeparator(Trimmed(domain))

----------------------------------------------------------------------------
\* the kinds of failure of one model attempt
FailureKinds ==
    {"RateLimited", "NotFoundOrPolicyRestricted", "Unauthorized", "BadRequest",
     "UpstreamServerError", "UnexpectedStatus", "NetworkFailure",
     "MalformedResponse", "NoChoices"}

\* C25: for a non-empty prompt the attempts of one query are models[1..k],
\* each model once and in list order, one at a time, where k is the position
\* of the first model that succeeds, or the length of the list if none
\* does: a failure of any kind leads to the next model and none is retried.
C25_AttemptsFollowTheList ==
    prompt # <<>> =>
        LET n == Len(query.attempts)
        IN  /\ n <= Len(models)
            /\ \A i \in 1..n : query.attempts[i].model = models[i]
            /\ \A i \in 1..n :
                   \/ query.attempts[i].outcome.ok /\ i = n /\ query.pc = "done"
                   \/ /\ ~query.attempts[i].outcome.ok
                      /\ query.attempts[i].outcome.error.kind \in FailureKinds
            /\ query.pc = "await" => query.index = n + 1
            /\ query.pc = "done" =>
                   /\ n >= 1
                   /\ query.attempts[n].outcome.ok \/ n = Len(models)

\* three models were tried in order after the first two failed in
\* different ways, one of them on a refused credential
C25_Witness ==
    /\ prompt # <<>>
    /\ models = <<"m1", "m2", "m1">>
    /\ query.pc = "done"
    /\ Len(query.attempts) = 3
    /\ query.attempts[1].outcome = Err("Unauthorized", 401)
    /\ query.attempts[2].outcome = Err("MalformedResponse", 200)
    /\ query.attempts[3].outcome.ok

\* what C26 says the outcome of an attempt is, from the endpoint's answer
AttemptOutcome(resp) ==
    IF resp.kind = "transport_error" THEN Err("NetworkFailure", 0)
    ELSE IF resp.status = 200 /\ ~resp.body.parsable THEN Err("MalformedResponse", 200)
    ELSE IF resp.status = 200 /\ resp.body.choices = <<>> THEN Err("NoChoices", 200)
    ELSE IF resp.status = 200 THEN Ok(Head(resp.body.choices))
    ELSE IF resp.status = 429 THEN Err("RateLimited", 429)
    ELSE IF resp.status = 404 THEN Err("NotFoundOrPolicyRestricted", 404)
    ELSE IF resp.status = 401 THEN Err("Unauthorized", 401)
    ELSE IF resp.status = 400 THEN Err("BadRequest", 400)
    ELSE IF resp.status = 500 THEN Err("UpstreamServerError", 500)
    ELSE Err("UnexpectedStatus", resp.status)

\* C26: the outcome of a model attempt is determined by the response: 200
\* with a choice gives the first choice's content, 200 without choices
\* NoChoices, 200 with an unparsable body MalformedResponse, 429 RateLimited,
\* 404 NotFoundOrPolicyRestricted, 401 Unauthorized, 400 BadRequest, 500
\* UpstreamServerError, any other status UnexpectedStatus, and a transport
\* failure NetworkFailure.
C26_OutcomeFollowsResponse ==
    \A i \in 1..Len(query.attempts) :
        query.attempts[i].outcome = AttemptOutcome(query.attempts[i].response)

\* a 200 without choices, then a status the code has no arm for, then a 200
\* with two choices whose first is the answer
C26_Witness ==
    /\ Len(query.attempts) = 3
    /\ query.attempts[1].response.status = 200
    /\ query.attempts[1].response.body.parsable
    /\ query.attempts[1].response.body.choices = <<>>
    /\ query.attempts[1].outcome = Err("NoChoices", 200)
    /\ query.attempts[2].outcome = Err("UnexpectedStatus", 503)
    /\ Len(query.attempts[3].response.body.choices) = 2
    /\ query.attempts[3].outcome = Ok(<<97>>)
    /\ query.attempts[3].response.body.choices[2] = <<>>

----------------------------------------------------------------------------
\* the tasks that have processed all their questions
Processed == { k \in 1..Len(tasks) : tasks[k].pc \in {"respond", "done"} }

\* the questions of task k that write a status: the non-TXT ones and the
\* TXT ones that failed
StatusWriters(k) ==
    { j \in 1..Len(RequestQueries(k)) : QuestionOutcome(k, j) # "resolved" }

\* the status C27 gives the response of task k
LastWrittenStatus(k) ==
    IF StatusWriters(k) = {} THEN "NoError"
    ELSE LET last == CHOOSE j \in StatusWriters(k) : \A i \in StatusWriters(k) : i <= j
         IN  IF QuestionOutcome(k, last) = "not_txt" THEN "NotImp" ELSE "ServFail"

\* C27: the status of a response is the one written by the last question,
\* in message order, that is non-TXT (NotImp) or a TXT question whose
\* pipeline failed (ServFail); a TXT question that resolved never changes
\* it, and it is NoError exactly when the message has no such question.
C27_LastWriterWins ==
    /\ \A k \in Processed : tasks[k].response_code = LastWrittenStatus(k)
    /\ \A p \in SentResponses :
          tasks[p[1]].sent[p[2]].msg.response_code = LastWrittenStatus(p[1])

\* a response ServFail whose failed question came first and was followed by
\* a TXT question that resolved
C27_Witness ==
    \E p \in SentResponses :
        LET k == p[1]
        IN  /\ Len(RequestQueries(k)) = 2
            /\ QuestionOutcome(k, 1) = "failed"
            /\ QuestionOutcome(k, 2) = "resolved"
            /\ tasks[k].sent[p[2]].msg.response_code = "ServFail"
            /\ tasks[k].sent[p[2]].msg.answers # <<>>

\* C28: for a non-TXT question no resolution is attempted: a completion
\* request is in flight only for a TXT question with a prompt, and the
\* engine has been called once for each such question processed and for no
\* other; the status is set to NotImp and the loop goes on, so the TXT
\* questions after it are still resolved; a message of non-TXT questions
\* only gets no answer record.
C28_NonTxtIsSkipped ==
    \A k \in 1..Len(tasks) :
        LET t == tasks[k]
            qs == RequestQueries(k)
            n == Len(qs)
        IN  /\ t.pc = "await_llm" =>
                   /\ t.qi \in 1..n
                   /\ IsTxt(qs[t.qi])
                   /\ parse_subdomain(qs[t.qi].name).ok
                   /\ Len(t.llm_results) = LlmIndex(k, t.qi - 1)
                   /\ (t.qi > 1 /\ ~IsTxt(qs[t.qi - 1])) => t.response_code = "NotImp"
            /\ t.pc \in {"respond", "done"} =>
                   /\ Len(t.llm_results) = LlmIndex(k, n)
                   /\ (n >= 1 /\ ~IsTxt(qs[n])) => t.response_code = "NotImp"
                   /\ (\A j \in 1..n : ~IsTxt(qs[j])) => t.answers = <<>>

\* the TXT question that follows a non-TXT question is being resolved, with
\* the status already NotImp
C28_Witness ==
    \E k \in 1..Len(tasks) :
        /\ tasks[k].pc = "await_llm"
        /\ tasks[k].qi = 2
        /\ ~IsTxt(RequestQueries(k)[1])
        /\ tasks[k].response_code = "NotImp"
        /\ tasks[k].llm_results = <<>>

\* the records C29 gives a question that resolved to the text: one per
\* chunk of the default chunker, in chunk order
RecordsOf(name, answer) ==
    LET cs == chunk_text(answer, 250, 4096)
    IN  [i \in 1..Len(cs) |-> [name |-> name, ttl |-> 300, txt |-> cs[i]]]

\* the answer section C29 gives task k after its first j questions
RECURSIVE AnswersUpTo(_, _)
AnswersUpTo(k, j) ==
    IF j = 0 THEN <<>>
    ELSE AnswersUpTo(k, j - 1) \o
         (IF QuestionOutcome(k, j) = "resolved"
          THEN RecordsOf(RequestQueries(k)[j].name, AnswerText(k, j))
          ELSE <<>>)

\* C29: the answer section of a response is, for each TXT question that
\* resolved, in question order, one TXT record per chunk in chunk order,
\* with the chunk's bytes as payload, a time-to-live of 300 and the
\* question's name as owner; non-TXT and failed questions add no record and
\* remove none.
C29_AnswersAreTheChunks ==
    /\ \A k \in Processed :
          tasks[k].answers = AnswersUpTo(k, Len(RequestQueries(k)))
    /\ \A p \in SentResponses :
          tasks[p[1]].sent[p[2]].msg.answers =
              AnswersUpTo(p[1], Len(RequestQueries(p[1])))

\* a response with the nine records of a first question whose answer takes
\* nine chunks, kept although the second question failed
C29_Witness ==
    \E p \in SentResponses :
        LET k == p[1]
            r == tasks[k].sent[p[2]].msg
        IN  /\ Len(RequestQueries(k)) = 2
            /\ QuestionOutcome(k, 1) = "resolved"
            /\ QuestionOutcome(k, 2) = "failed"
            /\ Len(r.answers) = 9
            /\ Len(r.answers[1].txt) = 250
            /\ Len(r.answers[9].txt) = 49
            /\ r.answers[9].txt[49] = 98
            /\ r.answers[1].ttl = 300

----------------------------------------------------------------------------
\* what is left of text_to_chunk when chunk i is cut
RemainingBefore(i) ==
    SubSeq(text_to_chunk, ChunkEnd(i - 1) + 1, Len(text_to_chunk))

\* C30: when the text, truncated if need be, is longer than max_chunk_size,
\* every chunk is the longest prefix of what remains that has at most
\* max_chunk_size bytes and ends on a character boundary; a single-byte
\* text of n <= max_total_size bytes gives ceil(n / max_chunk_size) chunks,
\* all but the last of exactly max_chunk_size bytes.
C30_ChunksAreLongestPrefixes ==
    (cpc \in {"loop", "done"} /\ Len(text_to_chunk) > max_chunk_size) =>
        /\ \A i \in 1..Len(chunks) :
               chunks[i] = SubSeq(RemainingBefore(i), 1,
                                  GreatestBoundaryAtMost(RemainingBefore(i), max_chunk_size))
        /\ (cpc = "done" /\ SingleByte(text) /\ Len(text) <= max_total_size) =>
               /\ Len(chunks) = (Len(text) + max_chunk_size - 1) \div max_chunk_size
               /\ \A i \in 1..(Len(chunks) - 1) : Len(chunks[i]) = max_chunk_size

\* "a", e-acute, "a" cut with two bytes a chunk: the first chunk stops
\* before the two-byte character, which fills the second
C30_Witness ==
    /\ cpc = "done"
    /\ max_chunk_size = 2
    /\ text = <<97, 195, 169, 97>>
    /\ chunks = << <<97>>, <<195, 169>>, <<97>> >>

----------------------------------------------------------------------------
\* how far start() has come: before the bind, in the receive loop (receiving
\* or pausing after a read error), returned
LifecycleRank(l) ==
    CASE l = "init" -> 0
      [] l \in {"serving", "sleeping"} -> 1
      [] OTHER -> 2

----------------------------------------------------------------------------
\* the tasks that have not ended
InFlight == { k \in 1..Len(tasks) : tasks[k].pc # "done" }

\* C32: once the receive loop has taken the shutdown signal nothing is
\* received any more, so no task is spawned and no later datagram is
\* answered; and the loop takes the signal, and start() returns, whatever
\* the tasks in flight are doing: it neither waits for them nor touches them.
C32_NoReceiveAfterShutdown ==
    /\ []((listener = "serving" /\ shutdown_rx.pending) => ENABLED ObserveShutdown)
    /\ [][ /\ (listener = "serving" /\ listener' = "stopped") => (tasks' = tasks)
           /\ (listener = "stopped") =>
                 /\ received' = received
                 /\ buffer' = buffer
                 /\ Len(tasks') = Len(tasks)
                 /\ \A k \in 1..Len(tasks) :
                       /\ tasks'[k].request_msg = received[k].msg
                       /\ tasks'[k].remote_addr = received[k].from ]_vars

\* start() has returned while one task waits for its completion call and
\* another has not started to run
C32_Witness ==
    /\ listener = "stopped"
    /\ Len(tasks) = 2
    /\ InFlight = {1, 2}
    /\ tasks[1].pc = "await_llm"
    /\ tasks[2].pc = "spawned"

----------------------------------------------------------------------------
\* C33: while it serves, the listener spawns one task for each datagram that
\* parses, whatever the tasks already in flight are doing, and goes on
\* receiving without waiting for any of them: a datagram can be received
\* whenever the listener serves (up to MaxDatagrams in the model), its task
\* starts as NewTask of this message and sender, and the tasks before it are
\* left as they are.
C33_OneTaskPerDatagram ==
    /\ [](Len(tasks) = Len(received))
    /\ []((listener = "serving" /\ Len(tasks) < MaxDatagrams) => ENABLED RecvMessage)
    /\ [][ (received' # received) =>
              /\ Len(received') = Len(received) + 1
              /\ received'[Len(received')].msg = buffer'
              /\ tasks' = Append(tasks, NewTask(buffer', received'[Len(received')].from))
              /\ listener = "serving"
              /\ listener' = "serving" ]_vars

\* as many tasks as the model receives datagrams are in flight together,
\* each waiting for its completion call, and the listener is serving
C33_Witness ==
    /\ listener = "serving"
    /\ Len(tasks) = MaxDatagrams
    /\ \A k \in 1..MaxDatagrams : tasks[k].pc = "await_llm"

----------------------------------------------------------------------------
----------------------------------------------------------------------------
\* C35: a call of shutdown() with no receive loop subscribed (before start()
\* has subscribed, or after it has returned) returns an error and leaves
\* nothing behind: no signal is queued without a receiver, and a loop that
\* subscribes later starts with none and stops only on a later call; a call
\* while a loop is subscribed returns Ok and queues the signal for that loop.
C35_ShutdownNeedsReceiver ==
    /\ [][ (shutdown_result' # shutdown_result) =>
              IF shutdown_rx.subscribed
              THEN /\ shutdown_result' = Some("Ok")
                   /\ shutdown_rx' = [subscribed |-> TRUE, pending |-> TRUE]
              ELSE /\ shutdown_result' = Some("Err")
                   /\ shutdown_rx' = shutdown_rx ]_vars
    /\ [](~shutdown_rx.subscribed => ~shutdown_rx.pending)
    /\ [][ (~shutdown_rx.subscribed /\ shutdown_rx'.subscribed) =>
              ~shutdown_rx'.pending ]_vars
    /\ [](shutdown_rx.pending => shutdown_result = Some("Ok"))
    /\ [][ (listener # "stopped" /\ listener' = "stopped") =>
              (shutdown_rx.pending /\ shutdown_result = Some("Ok")) ]_vars

\* shutdown() failed before start() subscribed; the loop that subscribed
\* afterwards has received a datagram and is serving with no signal queued
C35_Witness ==
    /\ shutdown_result = Some("Err")
    /\ listener = "serving"
    /\ shutdown_rx = [subscribed |-> TRUE, pending |-> FALSE]
    /\ Len(received) >= 1

----------------------------------------------------------------------------
\* the tasks whose call of LlmClient::query returns in this step
QueryReturns(k) ==
    /\ k \in 1..Len(tasks)
    /\ Len(tasks'[k].llm_results) = Len(tasks[k].llm_results) + 1

\* C36: the queries and the chunking of the tasks leave the engine (its
\* model list and credential) and the chunker's sizes as they are, and each
\* query has its own loop index and last_error. So, however the tasks
\* interleave on the shared engine, a query in flight has tried the models
\* from the first one on, in list order, each of them failed, its last_error
\* is the error of its own latest attempt, and it fails only after it has
\* itself tried the whole list.
C36_QueriesShareNothing ==
    /\ [][ /\ models' = models
           /\ client' = client
           /\ max_chunk_size' = max_chunk_size
           /\ max_total_size' = max_total_size ]_vars
    /\ [](\A k \in 1..Len(tasks) :
            (tasks[k].pc = "await_llm") =>
                LET q == tasks[k].query
                    n == Len(q.attempts)
                IN  /\ q.index = n + 1
                    /\ q.index <= Len(models)
                    /\ \A i \in 1..n : /\ q.attempts[i].model = models[i]
                                       /\ ~q.attempts[i].outcome.ok
                    /\ q.last_error = IF n = 0 THEN None
                                      ELSE Some(q.attempts[n].outcome.error))
    /\ [][ \A k \in 1..MaxDatagrams :
              QueryReturns(k) =>
                  LET r == tasks'[k].llm_results[Len(tasks'[k].llm_results)]
                  IN  r.ok \/ tasks[k].query.index = Len(models) ]_vars

\* two queries in flight on the shared engine: the first one has fallen back
\* to the second model, the second one is at the first model
C36_Witness ==
    /\ Len(tasks) = 2
    /\ tasks[1].pc = "await_llm"
    /\ tasks[1].query.index = 2
    /\ tasks[1].query.last_error # None
    /\ tasks[2].pc = "await_llm"
    /\ tasks[2].query.index = 1
    /\ tasks[2].query.last_error = None
    /\ models = ServerModels

----------------------------------------------------------------------------
\* the completion calls of task k that are in flight: the task awaits one
\* call at a time
CallsInFlight(k) == IF tasks[k].pc = "await_llm" THEN 1 ELSE 0

\* the completion calls task k has started for certain: one for each model
\* for a query that failed (the loop gives up only after the last model), one
\* at least for a query that succeeded, and those of the query in progress
CallsStarted(k) ==
    LET rs == tasks[k].llm_results
    IN  Len(models) * Cardinality({ i \in 1..Len(rs) :
                                       ~rs[i].ok /\ rs[i].error.kind # "EmptyPrompt" })
        + Cardinality({ i \in 1..Len(rs) : rs[i].ok })
        + Len(tasks[k].query.attempts) + CallsInFlight(k)

\* the questions of the request of task k that reach the engine
EngineQuestions(k) ==
    { j \in 1..Len(RequestQueries(k)) :
        /\ IsTxt(RequestQueries(k)[j])
        /\ parse_subdomain(RequestQueries(k)[j].name).ok }

\* C37 (as claimed): the task of one datagram makes at most as many
\* completion calls, in total, as there are models.
C37_AtMostOneCallPerModel ==
    \A k \in 1..Len(tasks) : CallsStarted(k) <= Len(models)

\* C37: a task calls the engine once for each TXT question that gives a
\* prompt, one question after the other; each of these queries makes at most
\* one completion call per model, and a call is sent only when the one
\* before it has failed, so that one call at most is in flight in the task.
C37_CallsBoundedPerQuestion ==
    \A k \in 1..Len(tasks) :
        LET t == tasks[k]
        IN  /\ Len(t.llm_results) + CallsInFlight(k) <= Cardinality(EngineQuestions(k))
            /\ Len(t.query.attempts) + CallsInFlight(k) <= Len(models)
            /\ (t.pc = "await_llm") =>
                  /\ t.qi \in EngineQuestions(k)
                  /\ Len(t.llm_results) = LlmIndex(k, t.qi) - 1
                  /\ t.query.pc = "await"
                  /\ t.query.index = Len(t.query.attempts) + 1
                  /\ \A i \in 1..Len(t.query.attempts) : ~t.query.attempts[i].outcome.ok
            /\ (t.pc # "await_llm") => (t.query.attempts = <<>>)

\* the first question of a request failed on each of the two models and the
\* second model is being asked the second question: the fourth call of the
\* task
C37_Witness ==
    /\ Len(models) = 2
    /\ tasks[1].pc = "await_llm"
    /\ tasks[1].qi = 2
    /\ Len(tasks[1].llm_results) = 1
    /\ ~tasks[1].llm_results[1].ok
    /\ tasks[1].query.index = 2
    /\ CallsStarted(1) = 4

----------------------------------------------------------------------------
----------------------------------------------------------------------------
\* the TXT questions of the request of task k whose name gives no prompt
PromptlessQuestions(k) ==
    { j \in 1..Len(RequestQueries(k)) :
        /\ IsTxt(RequestQueries(k)[j])
        /\ ~parse_subdomain(RequestQueries(k)[j].name).ok }

\* C39: a task never calls the engine with the empty prompt. A TXT question
\* whose name gives no prompt fails at parse_subdomain: the engine is not
\* called for it (the calls of the task are those for the questions that
\* give a prompt, and none returns EmptyPrompt), it adds no record, and it
\* writes the status ServFail, which stands unless a later question that is
\* not TXT writes NotImp.
C39_EmptyPromptNeverReachesEngine ==
    \A k \in 1..Len(tasks) :
        LET t == tasks[k]
            n == Len(RequestQueries(k))
        IN  /\ \A i \in 1..Len(t.llm_results) :
                  t.llm_results[i].ok \/ t.llm_results[i].error.kind # "EmptyPrompt"
            /\ (t.pc = "await_llm") =>
                  /\ t.qi \notin PromptlessQuestions(k)
                  /\ parse_subdomain(RequestQueries(k)[t.qi].name).content # <<>>
            /\ (t.pc # "spawned") =>
                  Len(t.llm_results) =
                      Cardinality({ j \in EngineQuestions(k) : j < t.qi })
            /\ (k \in Processed) =>
                  \A j \in PromptlessQuestions(k) :
                      /\ t.response_code # "NoError"
                      /\ (\A i \in (j + 1)..n : IsTxt(RequestQueries(k)[i])) =>
                            t.response_code = "ServFail"
                      /\ t.answers = AnswersUpTo(k, n)
                      /\ AnswersUpTo(k, j) = AnswersUpTo(k, j - 1)

\* a response to a request of two TXT questions, the root name and then
\* "hi.": ServFail from the first one, one engine call, for the second one,
\* and its record
C39_Witness ==
    \E p \in SentResponses :
        LET k == p[1]
            r == tasks[k].sent[p[2]].msg
        IN  /\ PromptlessQuestions(k) = {1}
            /\ EngineQuestions(k) = {2}
            /\ Len(tasks[k].llm_results) = 1
            /\ tasks[k].llm_results[1].ok
            /\ r.response_code = "ServFail"
            /\ Len(r.answers) = 1

----------------------------------------------------------------------------
\* the payload bytes of the records rs, all together
RECURSIVE PayloadBytes(_)
PayloadBytes(rs) ==
    IF rs = <<>> THEN 0 ELSE Len(Head(rs).txt) + PayloadBytes(Tail(rs))

\* C40 (as claimed): the TXT records of a response sent carry at most 4096
\* bytes of payload all together, however many questions the request has.
C40_ResponseWithinTotalSize ==
    \A p \in SentResponses :
        PayloadBytes(tasks[p[1]].sent[p[2]].msg.answers) <= 4096

====
